---- MODULE Spec2Model ----
(***************************************************************************)
(* Pricing and market-simulation kernel of Sundae Volatility.              *)
(*                                                                         *)
(* JavaScript numbers are modelled as extended fixed-point values: a       *)
(* finite value is an integer count of 1/SCALE units, and the IEEE-754     *)
(* specials NaN, +Infinity and -Infinity are kept as values of their own,  *)
(* with the rules JavaScript applies to them (x/0, 0/0, Infinity*0,        *)
(* Infinity-Infinity, Math.exp overflow).  Finite arithmetic rounds to the *)
(* nearest unit.                                                           *)
(***************************************************************************)
EXTENDS Integers, Sequences, FiniteSets, TLC

\* Units per 1.0 of a finite number.
SCALE == 10^4

Abs(n) == IF n < 0 THEN -n ELSE n
Sgn(n) == IF n < 0 THEN -1 ELSE IF n > 0 THEN 1 ELSE 0
Min2(a, b) == IF a <= b THEN a ELSE b
Max2(a, b) == IF a >= b THEN a ELSE b

\* a*b/c on naturals, rounded to nearest, keeping intermediates in 32 bits.
MulDivNat(a, b, c) == (a \div c) * b + ((a % c) * b + c \div 2) \div c

\* a*SCALE/c on naturals, rounded to nearest, by long division (SCALE is a
\* power of ten; s runs over the decimal places still to produce)
RECURSIVE LongDiv(_, _, _, _)
LongDiv(q, r, c, s) ==
    IF s = 1 THEN q + (IF 2 * r >= c THEN 1 ELSE 0)
    ELSE LongDiv(q * 10 + (r * 10) \div c, (r * 10) % c, c, s \div 10)

DivNat(a, c) == LongDiv(a \div c, a % c, c, SCALE)

(***************************************************************************)
(* JavaScript number values.                                               *)
(***************************************************************************)
Fin(n) == [k |-> "fin", v |-> n]
NaN    == [k |-> "nan", v |-> 0]
PInf   == [k |-> "inf", v |-> 1]
NInf   == [k |-> "inf", v |-> -1]
Inf(s) == [k |-> "inf", v |-> s]
Num(n) == Fin(n * SCALE)

IsFin(x) == x.k = "fin"
IsNaN(x) == x.k = "nan"
IsInf(x) == x.k = "inf"
SignOf(x) == Sgn(x.v)

FNeg(x) == IF IsNaN(x) THEN NaN ELSE [k |-> x.k, v |-> -x.v]

\* a + b
FAdd(a, b) ==
    IF IsNaN(a) \/ IsNaN(b) THEN NaN
    ELSE IF IsInf(a) /\ IsInf(b) THEN (IF a.v = b.v THEN a ELSE NaN)
    ELSE IF IsInf(a) THEN a
    ELSE IF IsInf(b) THEN b
    ELSE Fin(a.v + b.v)

\* a - b
FSub(a, b) == FAdd(a, FNeg(b))

\* a * b
FMul(a, b) ==
    IF IsNaN(a) \/ IsNaN(b) THEN NaN
    ELSE IF IsInf(a) \/ IsInf(b)
         THEN (IF SignOf(a) * SignOf(b) = 0 THEN NaN ELSE Inf(SignOf(a) * SignOf(b)))
    ELSE Fin(Sgn(a.v) * Sgn(b.v)
             * MulDivNat(Max2(Abs(a.v), Abs(b.v)), Min2(Abs(a.v), Abs(b.v)), SCALE))

\* a / b  (the model's zero is +0)
FDiv(a, b) ==
    IF IsNaN(a) \/ IsNaN(b) THEN NaN
    ELSE IF IsInf(a) THEN (IF IsInf(b) THEN NaN
                           ELSE Inf(a.v * (IF b.v < 0 THEN -1 ELSE 1)))
    ELSE IF IsInf(b) THEN Fin(0)
    ELSE IF b.v = 0 THEN (IF a.v = 0 THEN NaN ELSE Inf(Sgn(a.v)))
    ELSE Fin(Sgn(a.v) * Sgn(b.v) * DivNat(Abs(a.v), Abs(b.v)))

\* a < b, a <= b : false when either side is NaN
FLt(a, b) ==
    IF IsNaN(a) \/ IsNaN(b) THEN FALSE
    ELSE IF IsInf(a) THEN a.v < 0 /\ ~(IsInf(b) /\ b.v < 0)
    ELSE IF IsInf(b) THEN b.v > 0
    ELSE a.v < b.v

FLe(a, b) ==
    IF IsNaN(a) \/ IsNaN(b) THEN FALSE
    ELSE a = b \/ FLt(a, b)

\* Math.max(a, b)
FMax(a, b) ==
    IF IsNaN(a) \/ IsNaN(b) THEN NaN
    ELSE IF FLt(a, b) THEN b ELSE a

(***************************************************************************)
(* Math.sqrt, Math.log, Math.exp on the fixed-point grid.                  *)
(***************************************************************************)
RECURSIVE NewtonSqrt(_, _)
NewtonSqrt(n, x) ==
    LET y == (x + n \div x) \div 2
    IN  IF y >= x THEN x ELSE NewtonSqrt(n, y)

\* floor of the square root of a natural
ISqrt(n) == IF n < 2 THEN n ELSE NewtonSqrt(n, 2^16)

\* Math.sqrt(x)
FSqrt(x) ==
    IF IsNaN(x) THEN NaN
    ELSE IF IsInf(x) THEN (IF x.v > 0 THEN PInf ELSE NaN)
    ELSE IF x.v < 0 THEN NaN
    ELSE Fin(ISqrt(x.v * SCALE))

\* ln 2 in units
LN2 == (6931 * SCALE) \div 10^4

\* 2*atanh(y) = 2*(y + y^3/3 + y^5/5 + ...), y in units, 0 <= y <= 1/3
AtanhSeries(y) ==
    LET y2 == MulDivNat(y, y, SCALE)
        y3 == MulDivNat(y, y2, SCALE)
        y5 == MulDivNat(y3, y2, SCALE)
        y7 == MulDivNat(y5, y2, SCALE)
        y9 == MulDivNat(y7, y2, SCALE)
    IN  2 * (y + y3 \div 3 + y5 \div 5 + y7 \div 7 + y9 \div 9)

\* ln of a positive natural m (units), m scaled into [1,2) first
RECURSIVE LnPos(_)
LnPos(m) ==
    IF m >= 2 * SCALE THEN LN2 + LnPos(m \div 2)
    ELSE IF m < SCALE THEN LnPos(2 * m) - LN2
    ELSE AtanhSeries(DivNat(m - SCALE, m + SCALE))

\* Math.log(x)
FLn(x) ==
    IF IsNaN(x) THEN NaN
    ELSE IF IsInf(x) THEN (IF x.v > 0 THEN PInf ELSE NaN)
    ELSE IF x.v < 0 THEN NaN
    ELSE IF x.v = 0 THEN NInf
    ELSE Fin(LnPos(x.v))

\* Math.exp overflows to Infinity above ln(Number.MAX_VALUE) = 709.7827...
ExpOverflow == 709 * SCALE + (7827 * SCALE) \div 10^4
\* below this the result is less than half a unit
ExpUnderflow == -12 * SCALE

\* e^r for |r| <= ln2/2 (units), by its Taylor series
ExpSeries(r) ==
    LET a == Abs(r)
        t2 == MulDivNat(a, a, SCALE)
        t3 == MulDivNat(t2, a, SCALE)
        t4 == MulDivNat(t3, a, SCALE)
        t5 == MulDivNat(t4, a, SCALE)
        t6 == MulDivNat(t5, a, SCALE)
        s  == Sgn(r)
    IN  SCALE + s * a + t2 \div 2 + s * (t3 \div 6) + t4 \div 24
        + s * (t5 \div 120) + t6 \div 720

\* e^v for ExpUnderflow <= v <= 12 (units): v = k*ln2 + r.  Arguments between
\* 12 and ExpOverflow give finite doubles too large for the grid; the input
\* sets below keep -rate*T out of that range.
ExpFin(v) ==
    LET k == (IF v >= 0 THEN (v + LN2 \div 2) \div LN2
                        ELSE -((-v + LN2 \div 2) \div LN2))
        r == v - k * LN2
        e == ExpSeries(r)
    IN  IF k >= 0 THEN e * 2^k
        ELSE (e + 2^(-k - 1)) \div 2^(-k)

\* Math.exp(x)
FExp(x) ==
    IF IsNaN(x) THEN NaN
    ELSE IF IsInf(x) THEN (IF x.v > 0 THEN PInf ELSE Fin(0))
    ELSE IF x.v > ExpOverflow THEN PInf
    ELSE IF x.v < ExpUnderflow THEN Fin(0)
    ELSE Fin(ExpFin(x.v))

FAbs(x) == IF IsNaN(x) THEN NaN ELSE [k |-> x.k, v |-> Abs(x.v)]

(***************************************************************************)
(* The standard normal density and distribution function                   *)
(* (normalDistribution.ts): the Abramowitz-Stegun rational approximation   *)
(* 26.2.17 with the reflection Phi(-x) = 1 - Phi(x).                       *)
(***************************************************************************)
Coef(n) == Fin((n * SCALE) \div 10^4)

\* beyond this |x| the density is below half a unit
PdfCut == 6 * SCALE

\* normalPDF(x) = exp(-x*x/2) / sqrt(2*pi)
normalPDF(x) ==
    IF IsFin(x) /\ Abs(x.v) >= PdfCut THEN Fin(0)
    ELSE FMul(Coef(3989), FExp(FNeg(FDiv(FMul(x, x), Num(2)))))

\* normalCDF(x)
normalCDF(x) ==
    LET a     == FAbs(x)
        t     == FDiv(Num(1), FAdd(Num(1), FMul(Coef(2316), a)))
        poly  == FMul(t, FAdd(Coef(3194),
                 FMul(t, FAdd(Coef(-3566),
                 FMul(t, FAdd(Coef(17815),
                 FMul(t, FAdd(Coef(-18213),
                 FMul(t, Coef(13303))))))))))
        upper == FMul(normalPDF(a), poly)
    IN  IF FLe(Fin(0), x) THEN FSub(Num(1), upper) ELSE upper

(***************************************************************************)
(* OptionParams and the closed-form valuation.                             *)
(***************************************************************************)
\* (Math.log(spot/strike) + (rate + volatility**2/2) * timeToExpiry)
\*   / (volatility * Math.sqrt(timeToExpiry))
D1With(p, rate) ==
    FDiv(FAdd(FLn(FDiv(p.spot, p.strike)),
              FMul(FAdd(rate, FDiv(FMul(p.volatility, p.volatility), Num(2))),
                   p.timeToExpiry)),
         FMul(p.volatility, FSqrt(p.timeToExpiry)))

\* d2 = d1 - volatility * Math.sqrt(timeToExpiry)
D2Of(p, d1) == FSub(d1, FMul(p.volatility, FSqrt(p.timeToExpiry)))

\* the d1 of blackScholes
bsD1(p) == D1With(p, p.riskFreeRate)

\* strike * Math.exp(-riskFreeRate * timeToExpiry)
Discounted(p, rate) == FMul(p.strike, FExp(FMul(FNeg(rate), p.timeToExpiry)))

\* the intrinsic value without its floor at 0
IntrinsicUnfloored(p) ==
    IF p.isCall THEN FSub(p.spot, p.strike) ELSE FSub(p.strike, p.spot)

\* Math.max(0, isCall ? spot - strike : strike - spot)
Intrinsic(p) ==
    FMax(Fin(0), IF p.isCall THEN FSub(p.spot, p.strike) ELSE FSub(p.strike, p.spot))

blackScholes(p) ==
    IF FLe(p.timeToExpiry, Fin(0)) THEN Intrinsic(p)
    ELSE LET d1 == bsD1(p)
             d2 == D2Of(p, d1)
         IN  IF p.isCall
             THEN FSub(FMul(p.spot, normalCDF(d1)),
                       FMul(Discounted(p, p.riskFreeRate), normalCDF(d2)))
             ELSE FSub(FMul(Discounted(p, p.riskFreeRate), normalCDF(FNeg(d2))),
                       FMul(p.spot, normalCDF(FNeg(d1))))

(***************************************************************************)
(* American exercise: the Cox-Ross-Rubinstein binomial lattice.  A node    *)
(* (i, j) is reached after i steps, j of them up; its value is the larger  *)
(* of the immediate exercise value and the discounted expected value of    *)
(* its two successors, and the walk goes backward from expiry.             *)
(***************************************************************************)
LatticeSteps == 3

\* x^n by repeated multiplication
RECURSIVE FPow(_, _)
FPow(x, n) == IF n = 0 THEN Num(1) ELSE FMul(x, FPow(x, n - 1))

\* dt, the up and down factors, the up probability and the one-step discount
LatticeOf(p) ==
    LET dt   == FDiv(p.timeToExpiry, Num(LatticeSteps))
        up   == FExp(FMul(p.volatility, FSqrt(dt)))
        down == FDiv(Num(1), up)
    IN  [up |-> up, down |-> down,
         prob |-> FDiv(FSub(FExp(FMul(p.riskFreeRate, dt)), down), FSub(up, down)),
         discount |-> FExp(FMul(FNeg(p.riskFreeRate), dt))]

\* the exercise value at node (i, j)
ExerciseValue(p, i, j) ==
    LET lat == LatticeOf(p)
    IN  Intrinsic([p EXCEPT !.spot = FMul(FMul(p.spot, FPow(lat.up, j)),
                                          FPow(lat.down, i - j))])

\* the value at node (i, j); early says whether the holder may exercise
\* before expiry
RECURSIVE NodeValue(_, _, _, _)
NodeValue(p, i, j, early) ==
    IF i = LatticeSteps THEN ExerciseValue(p, i, j)
    ELSE LET lat == LatticeOf(p)
             continuation ==
                 FMul(lat.discount,
                      FAdd(FMul(lat.prob, NodeValue(p, i + 1, j + 1, early)),
                           FMul(FSub(Num(1), lat.prob), NodeValue(p, i + 1, j, early))))
         IN  IF early THEN FMax(ExerciseValue(p, i, j), continuation)
             ELSE continuation

\* a lattice that values the option as if it could be exercised at expiry only
binomialTreeEuropean(p) ==
    IF FLe(p.timeToExpiry, Fin(0)) THEN Intrinsic(p)
    ELSE NodeValue(p, 0, 0, FALSE)

binomialTree(p) ==
    IF FLe(p.timeToExpiry, Fin(0)) THEN Intrinsic(p)
    ELSE NodeValue(p, 0, 0, TRUE)

(***************************************************************************)
(* Greeks.                                                                 *)
(***************************************************************************)
\* the d1 of calculateDelta
deltaD1(p) == D1With(p, p.riskFreeRate)

\* a put delta mirrored from the call delta instead of shifted by 1
calculateDeltaMirrored(p) ==
    LET callDelta == normalCDF(deltaD1(p))
    IN  IF p.isCall THEN callDelta ELSE FNeg(callDelta)

calculateDelta(p) ==
    LET callDelta == normalCDF(deltaD1(p))
    IN  IF p.isCall THEN callDelta ELSE FSub(callDelta, Num(1))

\* the helper calculateGamma was refactored to use
computeD1(p) == D1With(p, p.riskFreeRate)

\* a gamma that takes the sign of the option kind, as delta does
calculateGammaSigned(p) ==
    LET g == FDiv(normalPDF(computeD1(p)),
                  FMul(FMul(p.spot, p.volatility), FSqrt(p.timeToExpiry)))
    IN  IF p.isCall THEN g ELSE FNeg(g)

calculateGamma(p) ==
    FDiv(normalPDF(computeD1(p)),
         FMul(FMul(p.spot, p.volatility), FSqrt(p.timeToExpiry)))

\* the rate calculateTheta writes into its d1 and its discounting
ThetaRate == Coef(500)

\* the d1 of calculateTheta
thetaD1(p) == D1With(p, ThetaRate)

calculateTheta(p) ==
    LET d1    == thetaD1(p)
        d2    == D2Of(p, d1)
        disc  == FExp(FMul(FNeg(ThetaRate), p.timeToExpiry))
        term1 == FDiv(FNeg(FMul(FMul(p.spot, normalPDF(d1)), p.volatility)),
                      FMul(Num(2), FSqrt(p.timeToExpiry)))
        term2 == IF p.isCall
                 THEN FMul(FMul(FMul(FNeg(ThetaRate), p.strike), disc), normalCDF(d2))
                 ELSE FMul(FMul(FMul(ThetaRate, p.strike), disc), normalCDF(FNeg(d2)))
    IN  FDiv(FAdd(term1, term2), Num(365))

\* vega = spot * phi(d1) * sqrt(T)
calculateVega(p) ==
    FMul(FMul(p.spot, normalPDF(D1With(p, p.riskFreeRate))), FSqrt(p.timeToExpiry))

(***************************************************************************)
(* Market simulation: one Ornstein-Uhlenbeck step with a jump.             *)
(* z is the value randomNormal() returned, u1 and u2 the values the two    *)
(* Math.random() calls returned (u2 is drawn only when the jump fires).    *)
(***************************************************************************)
JumpProb  == Coef(200)
JumpSize  == Coef(1000)
PriceFloor == Coef(5000)

JumpFires(dt, u1) == FLt(u1, FMul(JumpProb, dt))

\* the step without its Math.max floor
updatePriceUnclamped(q, dt, z, u1, u2) ==
    LET drift     == FMul(FMul(q.meanReversionSpeed,
                               FSub(q.longTermMean, q.currentPrice)), dt)
        diffusion == FMul(FMul(q.volatility, FSqrt(dt)), z)
        jump      == IF JumpFires(dt, u1)
                     THEN FMul(FMul(FMul(q.currentPrice, JumpSize),
                                    FSub(u2, Coef(5000))), Num(2))
                     ELSE Fin(0)
    IN  FAdd(FAdd(FAdd(q.currentPrice, drift), diffusion), jump)

\* a step whose drift has the sign of (currentPrice - longTermMean)
updatePriceAwayFromMean(q, dt, z, u1, u2) ==
    LET drift     == FMul(FMul(q.meanReversionSpeed,
                               FSub(q.currentPrice, q.longTermMean)), dt)
        diffusion == FMul(FMul(q.volatility, FSqrt(dt)), z)
        jump      == IF JumpFires(dt, u1)
                     THEN FMul(FMul(FMul(q.currentPrice, JumpSize),
                                    FSub(u2, Coef(5000))), Num(2))
                     ELSE Fin(0)
    IN  FMax(PriceFloor,
             FAdd(FAdd(FAdd(q.currentPrice, drift), diffusion), jump))

\* the jump component of a step: currentPrice * 0.1 * (Math.random() - 0.5) * 2
\* when the first draw is below jumpProb * dt, else 0
JumpTerm(q, dt, u1, u2) ==
    IF JumpFires(dt, u1)
    THEN FMul(FMul(FMul(q.currentPrice, JumpSize), FSub(u2, Coef(5000))), Num(2))
    ELSE Fin(0)

updatePrice(q, dt, z, u1, u2) ==
    LET drift     == FMul(FMul(q.meanReversionSpeed,
                               FSub(q.longTermMean, q.currentPrice)), dt)
        diffusion == FMul(FMul(q.volatility, FSqrt(dt)), z)
        jump      == IF JumpFires(dt, u1)
                     THEN FMul(FMul(FMul(q.currentPrice, JumpSize),
                                    FSub(u2, Coef(5000))), Num(2))
                     ELSE Fin(0)
    IN  FMax(PriceFloor,
             FAdd(FAdd(FAdd(q.currentPrice, drift), diffusion), jump))

(***************************************************************************)
(* State.                                                                  *)
(***************************************************************************)
VARIABLES
    params,   \* the OptionParams a caller holds (isCall is set per call)
    quote,    \* per option kind: what blackScholes returned to the caller
    greeks,   \* per option kind: what the Greek functions returned
    american, \* per option kind: what the lattice valuation returned
    proc,     \* the simulated underlying: currentPrice and process parameters
    simStep,  \* updatePrice calls made so far
    lastStep, \* the dt, the draws and the jump of the latest updatePrice call
    \* the prototype (prototype-minimal.js): the fields of its state object,
    capital, day, currentView, prices, positions,
    hidden,       \* the views whose container carries the class 'hidden'
    active,       \* the views whose navigation item carries the class 'active'
    navigated,    \* the user selected the current view after the latest trade, a timer of it pending
    cards,        \* the position cards in the DOM, in document order
    renderIdx,    \* renderPositions: index of the position rendered next, 0 when no pass runs
    pendingShow,  \* setTimeout(showPortfolioView) callbacks not yet run
    now,          \* the latest value Date.now() returned
    tick,         \* setInterval(updatePrices) callbacks run so far
    trades,       \* executeTrade calls that opened a position
    lastTrade,    \* what the latest executeTrade call computed and decided
    \* the game store (gameStore.ts)
    market, portfolio, progression, events,
    storage,      \* the storage item 'sundae-volatility-game', parsed
    calls,        \* store operations the session has still to make
    simLog,       \* advanceDay calls so far and, per flavor, updateFlavorPrice calls since the last one
    lastCall      \* the latest store operation, its arguments and its result

pricingVars == <<params, quote, greeks, american>>
simVars == <<proc, simStep, lastStep>>
protoVars == <<capital, day, currentView, hidden, active, navigated, prices, positions,
               cards, renderIdx, pendingShow, now, tick, trades, lastTrade>>
viewVars == <<currentView, hidden, active>>
storeVars == <<market, portfolio, progression, events, storage, calls, simLog, lastCall>>
vars == <<params, quote, greeks, american, proc, simStep, lastStep, protoVars, storeVars>>

Kinds == {"call", "put"}
None == [k |-> "none", v |-> 0]
NoQuote == [outcome |-> "pending", value |-> None, d1 |-> None]
NoGreeks == [outcome |-> "pending", delta |-> None, gamma |-> None, theta |-> None,
             vega |-> None, d1Delta |-> None, d1Gamma |-> None, d1Theta |-> None]

\* inputs of the valuation functions
Spots   == {Num(90), Num(100), Num(110)}
Strikes == {Num(90), Num(100)}
Expiries == {Coef(-2500), Fin(0), Coef(2500), Num(1)}
Rates   == {Num(-3200), Coef(-500), Fin(0), Coef(500), Coef(1000)}
Vols    == {Coef(-2000), Fin(0), Coef(2000), Num(5)}

ParamSet ==
    [spot : Spots, strike : Strikes, timeToExpiry : Expiries,
     riskFreeRate : Rates, volatility : Vols]

WithKind(pp, kind) ==
    [spot |-> pp.spot, strike |-> pp.strike, timeToExpiry |-> pp.timeToExpiry,
     riskFreeRate |-> pp.riskFreeRate, volatility |-> pp.volatility,
     isCall |-> (kind = "call")]

\* inputs of the simulator
MaxSteps == 3
StartPrices == {Coef(5500), Coef(25000)}
Dts   == {Fin(SCALE \div 365), Num(1)}
Zs    == {Num(-3), Fin(0), Num(3)}
U1s   == {Fin(0), Coef(300)}
U2s   == {Fin(0), Coef(9999)}
\* the jump probabilities createInitialMarket gives vanilla and chocolate
JumpProbabilities == {Coef(200), Coef(500)}
Proc0 == [currentPrice |-> Coef(25000), longTermMean |-> Coef(25000),
          meanReversionSpeed |-> Coef(3000), volatility |-> Coef(3500),
          jumpProbability |-> Coef(200)]
NoStep == [dt |-> None, z |-> None, u1 |-> None, u2 |-> None, before |-> None,
           jump |-> None]

Params0 ==
    [spot |-> Num(100), strike |-> Num(100), timeToExpiry |-> Num(1),
     riskFreeRate |-> Coef(500), volatility |-> Coef(2000)]

PricingIdle ==
    /\ params = Params0
    /\ quote = [kd \in Kinds |-> NoQuote]
    /\ greeks = [kd \in Kinds |-> NoGreeks]
    /\ american = [kd \in Kinds |-> NoQuote]

SimIdle ==
    /\ proc = Proc0
    /\ simStep = 0
    /\ lastStep = NoStep

PricingInit ==
    /\ params \in ParamSet
    /\ quote = [kd \in Kinds |-> NoQuote]
    /\ greeks = [kd \in Kinds |-> NoGreeks]
    /\ american = [kd \in Kinds |-> NoQuote]

SimInit ==
    /\ proc \in {[Proc0 EXCEPT !.currentPrice = c, !.jumpProbability = jp] :
                    c \in StartPrices, jp \in JumpProbabilities}
    /\ simStep = 0
    /\ lastStep = NoStep

(***************************************************************************)
(* The prototype (prototype-minimal.js): a state object, a price timer,    *)
(* the trade form and the portfolio view.  JavaScript runs one handler at  *)
(* a time: renderIdx # 0 means renderPositions is inside its forEach, and  *)
(* no other handler or timer callback starts before it returns.            *)
(***************************************************************************)
\* const flavors = ['vanilla', 'chocolate', 'strawberry']
flavors == {"vanilla", "chocolate", "strawberry"}

Null == [k |-> "null", v |-> 0]

\* state.prices as the script creates it
Prices0 ==
    [f \in flavors \cup {"mint"} |->
        CASE f = "vanilla"    -> Coef(25200)
          [] f = "chocolate"  -> Coef(27900)
          [] f = "strawberry" -> Coef(21900)
          [] OTHER            -> Null]

Views == {"market", "trade", "portfolio", "knowledge"}

\* parseFloat(x.toFixed(2))
ParseFloatToFixed2(x) ==
    IF IsFin(x)
    THEN Fin(Sgn(x.v) * ((Abs(x.v) * 100 + SCALE \div 2) \div SCALE) * (SCALE \div 100))
    ELSE x

\* the floor and the width of the random walk of updatePrices
MinPrice == Coef(5000)
WalkWidth == Coef(3000)

\* one flavor's new price; u is the value Math.random() returned
WalkPrice(oldPrice, u) ==
    LET change   == FMul(FSub(u, Coef(5000)), WalkWidth)
        newPrice == FMax(MinPrice, FAdd(oldPrice, change))
    IN  ParseFloatToFixed2(newPrice)

\* Math.sqrt(maturity / 365) * spot * 0.3
TimeValue(days, spot) == FMul(FMul(FSqrt(FDiv(days, Num(365))), spot), Coef(3000))

\* the unit cost executeTrade computes from the form's values
UnitCost(in) ==
    IF in.instrument = "forward" THEN prices[in.flavor]
    ELSE IF in.instrument = "call"
         THEN LET spot == prices[in.flavor]
                  intrinsic == FMax(Fin(0), FSub(spot, in.strike))
              IN  FAdd(intrinsic, TimeValue(in.maturity, spot))
    ELSE Fin(0)

TotalCost(in) == FMul(UnitCost(in), in.quantity)

calculatePositionValue(position) ==
    LET spot == prices[position.flavor]
    IN  IF position.instrument = "forward" THEN FMul(spot, position.quantity)
        ELSE IF position.instrument = "call"
             THEN LET intrinsic == FMax(Fin(0), FSub(spot, position.strike))
                      daysLeft  == FSub(position.maturity,
                                        Num(day - position.entryDay))
                      timeValue == TimeValue(FMax(Fin(0), daysLeft), spot)
                  IN  FMul(FAdd(intrinsic, timeValue), position.quantity)
        ELSE position.cost

\* the card createPositionCard builds: the id its close button passes to
\* closePosition and the value and profit it prints
createPositionCard(position) ==
    LET currentValue == calculatePositionValue(position)
    IN  [id |-> position.id,
         currentValue |-> currentValue,
         pnl |-> FSub(currentValue, position.cost)]

\* inputs of the prototype
MaxTicks == 1
MaxTrades == 2
\* the values Date.now() may return, in clock order
Times    == 1..2
Draws    == {Fin(0), Coef(9999)}
TradeInputs ==
    [flavor : {"vanilla"}, strike : {Coef(25000)}, maturity : {Num(30)},
     quantity : {Num(10), Num(5000)}, instrument : {"forward", "call"},
     position : {"buy"}]
NoTrade == [outcome |-> "none", totalCost |-> None]

\* the document (index.html): a container and a navigation item for each view
Containers == Views
NavItems == Views

ProtoInit ==
    /\ capital = Num(10000)
    /\ day = 1
    /\ currentView = "market"
    /\ hidden = Containers \ {"market"}
    /\ active = {"market"}
    /\ navigated = FALSE
    /\ prices = Prices0
    /\ positions = <<>>
    /\ cards = <<>>
    /\ renderIdx = 0
    /\ pendingShow = 0
    /\ now = 1
    /\ tick = 0
    /\ trades = 0
    /\ lastTrade = NoTrade

ProtoIdle == ProtoInit

\* what the prototype's handlers never touch
otherThanProto == <<pricingVars, simVars, storeVars>>

\* the setInterval callback that preempts a running handler
updatePricesPreempting ==
    /\ tick < MaxTicks
    /\ \E u \in [flavors -> Draws] :
          prices' = [f \in DOMAIN prices |->
                        IF f \in flavors THEN WalkPrice(prices[f], u[f])
                        ELSE prices[f]]
    /\ tick' = tick + 1
    /\ UNCHANGED <<otherThanProto, capital, day, viewVars, navigated, positions, cards, renderIdx,
                   pendingShow, now, trades, lastTrade>>

\* setInterval(updatePrices, 2000): the callback starts when no handler runs
updatePrices ==
    /\ renderIdx = 0
    /\ tick < MaxTicks
    /\ \E u \in [flavors -> Draws] :
          prices' = [f \in DOMAIN prices |->
                        IF f \in flavors THEN WalkPrice(prices[f], u[f])
                        ELSE prices[f]]
    /\ tick' = tick + 1
    /\ UNCHANGED <<otherThanProto, capital, day, viewVars, navigated, positions, cards, renderIdx,
                   pendingShow, now, trades, lastTrade>>

\* a showView that leaves the other containers and navigation items as they are
SwitchViewKeepingOthers(viewName) ==
    /\ hidden' = hidden \ {viewName}
    /\ active' = active \cup (IF viewName \in NavItems THEN {viewName} ELSE {})
    /\ currentView' = viewName

\* the body of showView: every container hidden but the requested one, every
\* navigation item inactive but the one of the requested view
SwitchView(viewName) ==
    /\ hidden' = Containers \ {viewName}
    /\ active' = IF viewName \in NavItems THEN {viewName} ELSE {}
    /\ currentView' = viewName

\* showMarketView, showTradeView, showKnowledgeView
showView(viewName) ==
    /\ renderIdx = 0
    /\ viewName \in Views \ {"portfolio"}
    /\ SwitchView(viewName)
    /\ navigated' = (pendingShow > 0)
    /\ UNCHANGED <<otherThanProto, capital, day, prices, positions, cards, renderIdx,
                   pendingShow, now, tick, trades, lastTrade>>

\* renderPositions up to its forEach: the old cards are removed
renderPositions ==
    /\ cards' = <<>>
    /\ renderIdx' = IF Len(positions') = 0 THEN 0 ELSE 1

showPortfolioView ==
    /\ renderIdx = 0
    /\ SwitchView("portfolio")
    /\ navigated' = (pendingShow > 0)
    /\ UNCHANGED positions
    /\ renderPositions
    /\ UNCHANGED <<otherThanProto, capital, day, prices, pendingShow, now, tick, trades, lastTrade>>

\* the callback of setTimeout(() => showPortfolioView(), 1000)
portfolioTimer ==
    /\ renderIdx = 0
    /\ pendingShow > 0
    /\ pendingShow' = pendingShow - 1
    /\ SwitchView("portfolio")
    /\ navigated' = FALSE
    /\ UNCHANGED positions
    /\ renderPositions
    /\ UNCHANGED <<otherThanProto, capital, day, prices, now, tick, trades, lastTrade>>

\* a createPositionCard that stores the value it computed in the position
renderCardCaching ==
    /\ renderIdx > 0
    /\ LET card == createPositionCard(positions[renderIdx])
       IN  /\ cards' = Append(cards, card)
           /\ positions' = [positions EXCEPT ![renderIdx].cost = card.currentValue]
    /\ renderIdx' = IF renderIdx = Len(positions) THEN 0 ELSE renderIdx + 1
    /\ UNCHANGED <<otherThanProto, capital, day, viewVars, navigated, prices, pendingShow, now, tick,
                   trades, lastTrade>>

\* one iteration of the forEach of renderPositions
renderCard ==
    /\ renderIdx > 0
    /\ cards' = Append(cards, createPositionCard(positions[renderIdx]))
    /\ renderIdx' = IF renderIdx = Len(positions) THEN 0 ELSE renderIdx + 1
    /\ UNCHANGED <<otherThanProto, capital, day, viewVars, navigated, prices, positions, pendingShow,
                   now, tick, trades, lastTrade>>

\* executeTrade without its affordability check
executeTradeUnchecked(in, t) ==
    /\ renderIdx = 0
    /\ trades < MaxTrades
    /\ LET totalCost == TotalCost(in)
       IN  /\ capital' = FSub(capital, totalCost)
           /\ positions' = Append(positions,
                  [id |-> t, instrument |-> in.instrument, flavor |-> in.flavor,
                   strike |-> in.strike, maturity |-> in.maturity,
                   quantity |-> in.quantity, position |-> in.position,
                   cost |-> totalCost, entryDay |-> day])
           /\ pendingShow' = pendingShow + 1
           /\ navigated' = FALSE
           /\ now' = t
           /\ trades' = trades + 1
           /\ lastTrade' = [outcome |-> "executed", totalCost |-> totalCost]
    /\ UNCHANGED <<otherThanProto, day, viewVars, prices, cards, renderIdx, tick>>

\* executeTrade charging the unit cost whatever the quantity
executeTradeChargingUnit(in, t) ==
    /\ renderIdx = 0
    /\ trades < MaxTrades
    /\ LET totalCost == TotalCost(in)
       IN  IF FLt(capital, totalCost)
           THEN /\ lastTrade' = [outcome |-> "rejected", totalCost |-> totalCost]
                /\ UNCHANGED <<capital, positions, pendingShow, now, trades, navigated>>
           ELSE /\ capital' = FSub(capital, UnitCost(in))
                /\ positions' = Append(positions,
                       [id |-> t, instrument |-> in.instrument, flavor |-> in.flavor,
                        strike |-> in.strike, maturity |-> in.maturity,
                        quantity |-> in.quantity, position |-> in.position,
                        cost |-> totalCost, entryDay |-> day])
                /\ pendingShow' = pendingShow + 1
                /\ navigated' = FALSE
                /\ now' = t
                /\ trades' = trades + 1
                /\ lastTrade' = [outcome |-> "executed", totalCost |-> totalCost]
    /\ UNCHANGED <<otherThanProto, day, viewVars, prices, cards, renderIdx, tick>>

\* the submit handler of the trade form; t is what Date.now() returns
executeTrade(in, t) ==
    /\ renderIdx = 0
    /\ trades < MaxTrades
    /\ LET totalCost == TotalCost(in)
       IN  IF FLt(capital, totalCost)
           THEN /\ lastTrade' = [outcome |-> "rejected", totalCost |-> totalCost]
                /\ UNCHANGED <<capital, positions, pendingShow, now, trades, navigated>>
           ELSE /\ capital' = FSub(capital, totalCost)
                /\ positions' = Append(positions,
                       [id |-> t, instrument |-> in.instrument, flavor |-> in.flavor,
                        strike |-> in.strike, maturity |-> in.maturity,
                        quantity |-> in.quantity, position |-> in.position,
                        cost |-> totalCost, entryDay |-> day])
                /\ pendingShow' = pendingShow + 1
                /\ navigated' = FALSE
                /\ now' = t
                /\ trades' = trades + 1
                /\ lastTrade' = [outcome |-> "executed", totalCost |-> totalCost]
    /\ UNCHANGED <<otherThanProto, day, viewVars, prices, cards, renderIdx, tick>>

\* state.positions.findIndex(p => p.id === positionId), 0 for -1
RECURSIVE FindIndex(_, _, _)
FindIndex(ps, positionId, i) ==
    IF i > Len(ps) THEN 0
    ELSE IF ps[i].id = positionId THEN i
    ELSE FindIndex(ps, positionId, i + 1)

\* state.positions.splice(posIndex, 1)
Splice(ps, posIndex) ==
    [i \in 1..(Len(ps) - 1) |-> IF i < posIndex THEN ps[i] ELSE ps[i + 1]]

\* the close button of a card
closePosition(positionId) ==
    /\ renderIdx = 0
    /\ LET posIndex == FindIndex(positions, positionId, 1)
       IN  IF posIndex = 0
           THEN UNCHANGED <<capital, positions, cards, renderIdx>>
           ELSE /\ capital' = FAdd(capital, calculatePositionValue(positions[posIndex]))
                /\ positions' = Splice(positions, posIndex)
                /\ renderPositions
    /\ UNCHANGED <<otherThanProto, day, viewVars, navigated, prices, pendingShow, now, tick, trades, lastTrade>>

ProtoNext ==
    \/ updatePrices
    \/ \E viewName \in Views : showView(viewName)
    \/ showPortfolioView
    \/ portfolioTimer
    \/ renderCard
    \/ \E in \in TradeInputs, t \in {x \in Times : x >= now} : executeTrade(in, t)
    \/ \E i \in DOMAIN cards : closePosition(cards[i].id)

(***************************************************************************)
(* The game store (gameStore.ts): a Zustand store under the persist        *)
(* middleware.  Every set() is followed by a write of the partialized      *)
(* state, as JSON, to the storage item; creating the store reads the item  *)
(* back and merges it over the initial state.                              *)
(***************************************************************************)
FlavorId == {"vanilla", "chocolate", "strawberry", "mint-chip"}
GreekType == {"delta", "gamma", "theta", "vega", "rho"}

\* a JavaScript Set, and the plain object JSON.parse returns for "{}"
SetOf(m) == [kind |-> "Set", members |-> m]
EmptyObject == [kind |-> "Object", members |-> {}]

\* the process part of a FlavorState
FlavorState(spot, vol, speed, jump) ==
    [spotPrice |-> spot, impliedVolatility |-> vol, lastPriceChange |-> Fin(0),
     meanReversionSpeed |-> speed, jumpProbability |-> jump]

createInitialMarket ==
    [currentDay |-> 1,
     flavors |-> [f \in FlavorId |->
        CASE f = "vanilla"    -> FlavorState(Coef(25000), Coef(3500), Coef(3000), Coef(200))
          [] f = "chocolate"  -> FlavorState(Coef(28000), Coef(5000), Coef(2500), Coef(500))
          [] f = "strawberry" -> FlavorState(Coef(22000), Coef(2500), Coef(4000), Coef(100))
          [] OTHER            -> FlavorState(Coef(26000), Coef(6500), Coef(2000), Coef(800))],
     isMarketOpen |-> TRUE,
     riskFreeRate |-> Coef(500)]

createInitialPortfolio ==
    [cash |-> Num(2000), positions |-> <<>>, totalValue |-> Num(2000),
     unrealizedPnL |-> Fin(0), realizedPnL |-> Fin(0)]

createInitialProgression ==
    [unlockedGreeks |-> SetOf({}), unlockedFeatures |-> SetOf({}),
     achievements |-> SetOf({}), totalSpent |-> Fin(0), totalEarned |-> Fin(0),
     maxCapital |-> Num(2000), tradesCompleted |-> 0, daysPlayed |-> 1]

\* JSON.parse(JSON.stringify(x)) of a number: NaN and the infinities become null
JsonNumber(x) == IF IsFin(x) THEN x ELSE Null

\* ... of a Set or a plain object: a Set has no enumerable properties
JsonObject(c) == IF c.kind = "Set" THEN EmptyObject ELSE c

JsonFlavor(fs) ==
    [spotPrice |-> JsonNumber(fs.spotPrice),
     impliedVolatility |-> JsonNumber(fs.impliedVolatility),
     lastPriceChange |-> JsonNumber(fs.lastPriceChange),
     meanReversionSpeed |-> JsonNumber(fs.meanReversionSpeed),
     jumpProbability |-> JsonNumber(fs.jumpProbability)]

JsonPosition(p) ==
    [p EXCEPT !.entryPrice = JsonNumber(@), !.currentValue = JsonNumber(@),
              !.unrealizedPnL = JsonNumber(@)]

\* what the storage item holds after a write of partialize(state), read back
Persisted(m, pf, pg) ==
    [market |-> [m EXCEPT !.flavors = [f \in FlavorId |-> JsonFlavor(m.flavors[f])],
                          !.riskFreeRate = JsonNumber(@)],
     portfolio |-> [pf EXCEPT !.cash = JsonNumber(@),
                              !.positions = [i \in DOMAIN pf.positions |->
                                                JsonPosition(pf.positions[i])],
                              !.totalValue = JsonNumber(@),
                              !.unrealizedPnL = JsonNumber(@),
                              !.realizedPnL = JsonNumber(@)],
     progression |-> [pg EXCEPT !.unlockedGreeks = JsonObject(@),
                                !.unlockedFeatures = JsonObject(@),
                                !.achievements = JsonObject(@),
                                !.totalSpent = JsonNumber(@),
                                !.totalEarned = JsonNumber(@),
                                !.maxCapital = JsonNumber(@)]]

\* state.events.slice(-99)
SliceLast(evs, n) ==
    IF Len(evs) <= n THEN evs ELSE SubSeq(evs, Len(evs) - n + 1, Len(evs))
EventsKept == 99

\* an emit that keeps every earlier event
EmittedKeepingAll(evs, event) == Append(evs, event)

\* the events after emit(event)
Emitted(evs, event) == Append(SliceLast(evs, EventsKept), event)

\* inputs of the store
MaxCalls == 4
TradedFlavors == {"vanilla", "chocolate"}
NewPrices == {Coef(26000)}
NewVols == {Coef(4000), Coef(-3500)}
MarketUpdates == {[currentDay |-> 1], [isMarketOpen |-> FALSE]}
CashAmounts == {Num(-500), Num(-5000)}
UnlockGreeks == {"delta", "gamma"}
UnlockCosts == {Num(500), Num(5000)}
AchievementIds == {"first-trade"}
PositionIds == {"p1"}

\* the Position a caller passes to addPosition: 100 calls on vanilla, struck
\* at 2.75 and 30 days from expiry, valued with blackScholes at the spot
NewPosition(id) ==
    LET p == [spot |-> market.flavors["vanilla"].spotPrice, strike |-> Coef(27500),
              timeToExpiry |-> FDiv(Num(30), Num(365)),
              riskFreeRate |-> market.riskFreeRate,
              volatility |-> market.flavors["vanilla"].impliedVolatility,
              isCall |-> TRUE]
        price == blackScholes(p)
    IN  [id |-> id,
         instrument |-> [id |-> "vanilla-call", flavor |-> "vanilla", type |-> "call",
                         strike |-> Coef(27500), expiration |-> 30,
                         isAmerican |-> FALSE],
         quantity |-> Num(100), entryPrice |-> price,
         entryDate |-> market.currentDay,
         currentValue |-> FMul(price, Num(100)), unrealizedPnL |-> Fin(0),
         greeks |-> [delta |-> calculateDelta(p)]]

Call(op, greek, cost, result) ==
    [op |-> op, greek |-> greek, cost |-> cost, result |-> result]

NoUpdates == [f \in FlavorId |-> 0]

StoreInit ==
    /\ market = createInitialMarket
    /\ portfolio = createInitialPortfolio
    /\ progression = createInitialProgression
    /\ events = <<>>
    /\ storage = Persisted(createInitialMarket, createInitialPortfolio,
                           createInitialProgression)
    /\ calls = MaxCalls
    /\ simLog = [advances |-> 0, updates |-> NoUpdates]
    /\ lastCall = Call("create", "", None, "ok")

StoreIdle == StoreInit

\* a session that only trades: positions are opened and closed and cash is
\* moved, MaxOrders times in all
MaxOrders == 11
TradingInit ==
    /\ market = createInitialMarket
    /\ portfolio = createInitialPortfolio
    /\ progression = createInitialProgression
    /\ events = <<>>
    /\ storage = Persisted(createInitialMarket, createInitialPortfolio,
                           createInitialProgression)
    /\ calls = MaxOrders
    /\ simLog = [advances |-> 0, updates |-> NoUpdates]
    /\ lastCall = Call("create", "", None, "ok")

\* what the store's operations never touch
otherThanStore == <<pricingVars, simVars, protoVars>>

\* the end of every operation: the persist middleware writes the item
Written ==
    /\ storage' = Persisted(market', portfolio', progression')
    /\ calls' = calls - 1
    /\ UNCHANGED otherThanStore

\* { ...obj, ...updates }
Spread(obj, updates) ==
    [key \in DOMAIN obj |-> IF key \in DOMAIN updates THEN updates[key] ELSE obj[key]]

updateMarket(updates) ==
    /\ calls > 0
    /\ market' = Spread(market, updates)
    /\ lastCall' = Call("updateMarket", "", None, "ok")
    /\ UNCHANGED <<portfolio, progression, events, simLog>>
    /\ Written

\* an updateFlavorPrice that takes lastPriceChange after it has set the price
updateFlavorPriceLate(flavor, price, vol) ==
    /\ calls > 0
    /\ market' = [market EXCEPT !.flavors[flavor] =
            [@ EXCEPT !.spotPrice = price,
                      !.impliedVolatility = vol,
                      !.lastPriceChange = FSub(price, price)]]
    /\ simLog' = [simLog EXCEPT !.updates[flavor] = Min2(@ + 1, 2)]
    /\ lastCall' = [op |-> "updateFlavorPrice", flavor |-> flavor, price |-> price,
                    vol |-> vol, result |-> "ok"]
    /\ UNCHANGED <<portfolio, progression, events>>
    /\ Written

updateFlavorPrice(flavor, price, vol) ==
    /\ calls > 0
    /\ market' = [market EXCEPT !.flavors[flavor] =
            [@ EXCEPT !.spotPrice = price,
                      !.impliedVolatility = vol,
                      !.lastPriceChange = FSub(price, market.flavors[flavor].spotPrice)]]
    /\ simLog' = [simLog EXCEPT !.updates[flavor] = Min2(@ + 1, 2)]
    /\ lastCall' = [op |-> "updateFlavorPrice", flavor |-> flavor, price |-> price,
                    vol |-> vol, result |-> "ok"]
    /\ UNCHANGED <<portfolio, progression, events>>
    /\ Written

advanceDay ==
    /\ calls > 0
    /\ LET newDay == market.currentDay + 1
       IN  /\ events' = Emitted(events, [type |-> "day.advanced", data |-> newDay])
           /\ market' = [market EXCEPT !.currentDay = newDay]
           /\ progression' = [progression EXCEPT !.daysPlayed = newDay]
    /\ simLog' = [advances |-> Min2(simLog.advances + 1, 2), updates |-> NoUpdates]
    /\ lastCall' = Call("advanceDay", "", None, "ok")
    /\ UNCHANGED portfolio
    /\ Written

\* an addPosition whose set() merges its result over the state it read before
\* the updater ran, dropping what emit and incrementTrades wrote meanwhile
addPositionOverwriting(position) ==
    /\ calls > 0
    /\ portfolio' = [portfolio EXCEPT !.positions = Append(@, position)]
    /\ lastCall' = Call("addPosition", "", None, "ok")
    /\ UNCHANGED <<market, progression, events, simLog>>
    /\ Written

\* emit and incrementTrades run inside the updater and set events and
\* progression; the updater's result, merged last, sets portfolio only
addPosition(position) ==
    /\ calls > 0
    /\ events' = Emitted(events, [type |-> "position.opened", data |-> position])
    /\ progression' = [progression EXCEPT !.tradesCompleted = @ + 1]
    /\ portfolio' = [portfolio EXCEPT !.positions = Append(@, position)]
    /\ lastCall' = Call("addPosition", "", None, "ok")
    /\ UNCHANGED <<market, simLog>>
    /\ Written

\* state.portfolio.positions.filter(p => p.id !== positionId)
RECURSIVE WithoutId(_, _)
WithoutId(ps, positionId) ==
    IF ps = <<>> THEN <<>>
    ELSE IF Head(ps).id = positionId THEN WithoutId(Tail(ps), positionId)
    ELSE <<Head(ps)>> \o WithoutId(Tail(ps), positionId)

removePosition(positionId) ==
    /\ calls > 0
    /\ portfolio' = [portfolio EXCEPT !.positions = WithoutId(@, positionId)]
    /\ lastCall' = Call("removePosition", "", None, "ok")
    /\ UNCHANGED <<market, progression, events, simLog>>
    /\ Written

\* an updateCash without its Math.max(0, ...)
updateCashUnclamped(amount) ==
    /\ calls > 0
    /\ portfolio' = [portfolio EXCEPT !.cash = FAdd(@, amount)]
    /\ lastCall' = Call("updateCash", "", amount, "ok")
    /\ UNCHANGED <<market, progression, events, simLog>>
    /\ Written

updateCash(amount) ==
    /\ calls > 0
    /\ portfolio' = [portfolio EXCEPT !.cash = FMax(Fin(0), FAdd(@, amount))]
    /\ lastCall' = Call("updateCash", "", amount, "ok")
    /\ UNCHANGED <<market, progression, events, simLog>>
    /\ Written

\* an unlockGreek that forgets to add the cost to totalSpent
unlockGreekUncounted(greek, cost) ==
    /\ calls > 0
    /\ IF FLt(portfolio.cash, cost)
       THEN /\ lastCall' = Call("unlockGreek", greek, cost, "false")
            /\ UNCHANGED <<portfolio, progression, events>>
       ELSE IF progression.unlockedGreeks.kind # "Set"
       THEN /\ lastCall' = Call("unlockGreek", greek, cost, "TypeError")
            /\ UNCHANGED <<portfolio, progression, events>>
       ELSE /\ events' = Emitted(events, [type |-> "unlock.purchased",
                                          data |-> <<greek, cost>>])
            /\ portfolio' = [portfolio EXCEPT !.cash = FSub(@, cost)]
            /\ progression' = [progression EXCEPT
                    !.unlockedGreeks = SetOf(@.members \cup {greek})]
            /\ lastCall' = Call("unlockGreek", greek, cost, "true")
    /\ UNCHANGED <<market, simLog>>
    /\ Written

\* an unlockGreek without its cash check
unlockGreekUnchecked(greek, cost) ==
    /\ calls > 0
    /\ IF progression.unlockedGreeks.kind # "Set"
       THEN /\ lastCall' = Call("unlockGreek", greek, cost, "TypeError")
            /\ UNCHANGED <<portfolio, progression, events>>
       ELSE /\ events' = Emitted(events, [type |-> "unlock.purchased",
                                          data |-> <<greek, cost>>])
            /\ portfolio' = [portfolio EXCEPT !.cash = FSub(@, cost)]
            /\ progression' = [progression EXCEPT
                    !.unlockedGreeks = SetOf(@.members \cup {greek}),
                    !.totalSpent = FAdd(@, cost)]
            /\ lastCall' = Call("unlockGreek", greek, cost, "true")
    /\ UNCHANGED <<market, simLog>>
    /\ Written

\* new Set(x) throws a TypeError when x is a plain object (not iterable)
unlockGreek(greek, cost) ==
    /\ calls > 0
    /\ IF FLt(portfolio.cash, cost)
       THEN /\ lastCall' = Call("unlockGreek", greek, cost, "false")
            /\ UNCHANGED <<portfolio, progression, events>>
       ELSE IF progression.unlockedGreeks.kind # "Set"
       THEN /\ lastCall' = Call("unlockGreek", greek, cost, "TypeError")
            /\ UNCHANGED <<portfolio, progression, events>>
       ELSE /\ events' = Emitted(events, [type |-> "unlock.purchased",
                                          data |-> <<greek, cost>>])
            /\ portfolio' = [portfolio EXCEPT !.cash = FSub(@, cost)]
            /\ progression' = [progression EXCEPT
                    !.unlockedGreeks = SetOf(@.members \cup {greek}),
                    !.totalSpent = FAdd(@, cost)]
            /\ lastCall' = Call("unlockGreek", greek, cost, "true")
    /\ UNCHANGED <<market, simLog>>
    /\ Written

addAchievement(id) ==
    /\ calls > 0
    /\ IF progression.achievements.kind # "Set"
       THEN /\ lastCall' = Call("addAchievement", "", None, "TypeError")
            /\ UNCHANGED progression
       ELSE /\ progression' = [progression EXCEPT
                    !.achievements = SetOf(@.members \cup {id})]
            /\ lastCall' = Call("addAchievement", "", None, "ok")
    /\ UNCHANGED <<market, portfolio, events, simLog>>
    /\ Written

incrementTrades ==
    /\ calls > 0
    /\ progression' = [progression EXCEPT !.tradesCompleted = @ + 1]
    /\ lastCall' = Call("incrementTrades", "", None, "ok")
    /\ UNCHANGED <<market, portfolio, events, simLog>>
    /\ Written

\* the page is loaded again: the store is created and persist merges the
\* stored item over the initial state
rehydrate ==
    /\ calls > 0
    /\ market' = storage.market
    /\ portfolio' = storage.portfolio
    /\ progression' = storage.progression
    /\ events' = <<>>
    /\ lastCall' = Call("create", "", None, "ok")
    /\ UNCHANGED simLog
    /\ Written

StoreNext ==
    \/ \E updates \in MarketUpdates : updateMarket(updates)
    \/ \E flavor \in TradedFlavors, price \in NewPrices, vol \in NewVols :
          updateFlavorPrice(flavor, price, vol)
    \/ advanceDay
    \/ \E id \in PositionIds : addPosition(NewPosition(id))
    \/ \E id \in PositionIds : removePosition(id)
    \/ \E amount \in CashAmounts : updateCash(amount)
    \/ \E greek \in UnlockGreeks, cost \in UnlockCosts : unlockGreek(greek, cost)
    \/ \E id \in AchievementIds : addAchievement(id)
    \/ incrementTrades
    \/ rehydrate

\* a session long enough to fill the event log: the days are advanced
\* MaxEmits times
MaxEmits == 101
LogInit ==
    /\ market = createInitialMarket
    /\ portfolio = createInitialPortfolio
    /\ progression = createInitialProgression
    /\ events = <<>>
    /\ storage = Persisted(createInitialMarket, createInitialPortfolio,
                           createInitialProgression)
    /\ calls = MaxEmits
    /\ simLog = [advances |-> 0, updates |-> NoUpdates]
    /\ lastCall = Call("create", "", None, "ok")

TradingNext ==
    \/ \E id \in PositionIds : addPosition(NewPosition(id))
    \/ \E id \in PositionIds : removePosition(id)
    \/ \E amount \in CashAmounts : updateCash(amount)

(***************************************************************************)
(* Operations.                                                             *)
(***************************************************************************)
\* a caller prices the option of one kind: blackScholes has no throw
\* statement, so every call returns
Price(kind) ==
    /\ quote[kind].outcome = "pending"
    /\ LET p == WithKind(params, kind)
       IN  quote' = [quote EXCEPT ![kind] =
                [outcome |-> "returned",
                 value   |-> blackScholes(p),
                 d1      |-> IF FLe(p.timeToExpiry, Fin(0)) THEN None ELSE bsD1(p)]]
    /\ UNCHANGED <<params, greeks, american, simVars, protoVars, storeVars>>

\* a caller asks for the Greeks of the option of one kind
Greeks(kind) ==
    /\ greeks[kind].outcome = "pending"
    /\ LET p == WithKind(params, kind)
       IN  greeks' = [greeks EXCEPT ![kind] =
                [outcome |-> "returned",
                 delta   |-> calculateDelta(p),
                 gamma   |-> calculateGamma(p),
                 theta   |-> calculateTheta(p),
                 vega    |-> calculateVega(p),
                 d1Delta |-> deltaD1(p),
                 d1Gamma |-> computeD1(p),
                 d1Theta |-> thetaD1(p)]]
    /\ UNCHANGED <<params, quote, american, simVars, protoVars, storeVars>>

\* the lattice is evaluated where its node prices, factors and discounts stay
\* on the fixed-point grid
OnGrid(p) ==
    LET dt == FDiv(p.timeToExpiry, Num(LatticeSteps))
    IN  /\ FLe(FAbs(FMul(p.riskFreeRate, dt)), Num(1))
        /\ FLe(FMul(FMul(p.volatility, FSqrt(dt)), Num(LatticeSteps)), Num(1))

\* a caller prices the American-exercise option of one kind: volatility <= 0
\* and time-to-expiry < 0 fail with InvalidParameter
PriceAmerican(kind) ==
    /\ american[kind].outcome = "pending"
    /\ LET p == WithKind(params, kind)
       IN  IF FLe(p.volatility, Fin(0)) \/ FLt(p.timeToExpiry, Fin(0))
           THEN american' = [american EXCEPT ![kind] =
                    [outcome |-> "InvalidParameter", value |-> None, d1 |-> None]]
           ELSE /\ OnGrid(p)
                /\ american' = [american EXCEPT ![kind] =
                        [outcome |-> "returned", value |-> binomialTree(p),
                         d1 |-> None]]
    /\ UNCHANGED <<params, quote, greeks, simVars, protoVars, storeVars>>

\* one simulated step
Advance ==
    /\ simStep < MaxSteps
    /\ \E dt \in Dts, z \in Zs, u1 \in U1s, u2 \in U2s :
          /\ proc' = [proc EXCEPT !.currentPrice = updatePrice(proc, dt, z, u1, u2)]
          /\ lastStep' = [dt |-> dt, z |-> z, u1 |-> u1,
                          u2 |-> IF JumpFires(dt, u1) THEN u2 ELSE None,
                          before |-> proc.currentPrice,
                          jump |-> JumpTerm(proc, dt, u1, u2)]
    /\ simStep' = simStep + 1
    /\ UNCHANGED <<pricingVars, protoVars, storeVars>>

PricingNext == \E kind \in Kinds : Price(kind) \/ Greeks(kind) \/ PriceAmerican(kind)
SimNext == Advance

Init == PricingInit /\ SimIdle /\ ProtoIdle /\ StoreIdle
Next == PricingNext
Spec == Init /\ [][Next]_vars

SimSpecInit == SimInit /\ PricingIdle /\ ProtoIdle /\ StoreIdle
SimSpec == SimSpecInit /\ [][SimNext]_vars

ProtoSpecInit == ProtoInit /\ PricingIdle /\ SimIdle /\ StoreIdle
ProtoSpec == ProtoSpecInit /\ [][ProtoNext]_vars

StoreSpecInit == StoreInit /\ PricingIdle /\ SimIdle /\ ProtoIdle
StoreSpec == StoreSpecInit /\ [][StoreNext]_vars

TradingSpecInit == TradingInit /\ PricingIdle /\ SimIdle /\ ProtoIdle
TradingSpec == TradingSpecInit /\ [][TradingNext]_vars

LogSpecInit == LogInit /\ PricingIdle /\ SimIdle /\ ProtoIdle
LogNext == advanceDay
LogSpec == LogSpecInit /\ [][LogNext]_vars

(***************************************************************************)
(* Properties.                                                             *)
(***************************************************************************)
Priced(kind) == quote[kind].outcome # "pending"
HasGreeks(kind) == greeks[kind].outcome # "pending"

\* spot > 0, strike > 0, volatility > 0, time-to-expiry >= 0, any rate
Valid(pp) ==
    /\ pp.spot.v > 0
    /\ pp.strike.v > 0
    /\ pp.volatility.v > 0
    /\ pp.timeToExpiry.v >= 0

\* -rate*T stays below the point where Math.exp returns Infinity
NoOverflow(pp) == ~IsInf(FExp(FMul(FNeg(pp.riskFreeRate), pp.timeToExpiry)))

\* C1: with time-to-expiry <= 0 blackScholes returns exactly the intrinsic
\* value, max(0, spot - strike) for a call and max(0, strike - spot) for a
\* put, whatever the volatility and the rate.
C1_IntrinsicAtExpiry ==
    params.timeToExpiry.v <= 0 =>
        /\ Priced("call") =>
              /\ quote["call"].outcome = "returned"
              /\ quote["call"].value = Fin(Max2(0, params.spot.v - params.strike.v))
        /\ Priced("put") =>
              /\ quote["put"].outcome = "returned"
              /\ quote["put"].value = Fin(Max2(0, params.strike.v - params.spot.v))

\* spot 90, strike 100, T = 0: the call is priced 0 and the put 10
C1_Witness ==
    /\ params.spot = Num(90) /\ params.strike = Num(100)
    /\ params.timeToExpiry = Fin(0)
    /\ quote["call"].value = Fin(0)
    /\ quote["put"].value = Num(10)

\* two numbers agree up to the rounding of the arithmetic
Tolerance == SCALE \div 1000
NearlyEqual(a, b) ==
    \/ IsFin(a) /\ IsFin(b) /\ Abs(a.v - b.v) <= Tolerance
    \/ IsInf(a) /\ a = b

\* C2: put-call parity: for valid shared parameters the call price minus the
\* put price is spot - strike*e^(-rate*T) (up to rounding), and exactly
\* spot - strike at T = 0.
C2_PutCallParity ==
    (Valid(params) /\ Priced("call") /\ Priced("put")) =>
        /\ NearlyEqual(FSub(quote["call"].value, quote["put"].value),
                       FSub(params.spot, Discounted(params, params.riskFreeRate)))
        /\ params.timeToExpiry.v = 0 =>
              FSub(quote["call"].value, quote["put"].value)
                  = FSub(params.spot, params.strike)

\* parity does hold wherever Math.exp(-rate*T) is finite
ParityWithoutOverflow == NoOverflow(params) => C2_PutCallParity

\* C3: blackScholes fails with InvalidParameter, and returns no value,
\* whenever volatility <= 0 or time-to-expiry < 0.
C3_RejectsInvalid ==
    \A kind \in Kinds :
        (Priced(kind) /\ (params.volatility.v <= 0 \/ params.timeToExpiry.v < 0)) =>
            /\ quote[kind].outcome = "InvalidParameter"
            /\ quote[kind].value = None

\* C4: after every updatePrice step the price is a finite number, strictly
\* positive and not below the clamp floor.
C4_PricePositive ==
    /\ IsFin(proc.currentPrice)
    /\ proc.currentPrice.v > 0
    /\ proc.currentPrice.v >= PriceFloor.v

\* a step with a negative normal draw ended on the floor
C4_Witness ==
    /\ simStep > 0
    /\ lastStep.z.v < 0
    /\ lastStep.before.v > PriceFloor.v
    /\ proc.currentPrice = PriceFloor

\* C6: for valid parameters the delta of a call lies in [0,1] and the delta
\* of a put in [-1,0].
C6_DeltaBounds ==
    Valid(params) =>
        /\ HasGreeks("call") =>
              /\ IsFin(greeks["call"].delta)
              /\ greeks["call"].delta.v >= 0
              /\ greeks["call"].delta.v <= SCALE
        /\ HasGreeks("put") =>
              /\ IsFin(greeks["put"].delta)
              /\ greeks["put"].delta.v >= -SCALE
              /\ greeks["put"].delta.v <= 0

\* the bounds do hold for valid parameters with time-to-expiry > 0
DeltaBoundsBeforeExpiry == params.timeToExpiry.v > 0 => C6_DeltaBounds

\* C7: the d1 computed by calculateDelta, calculateGamma and calculateTheta
\* equals the d1 blackScholes computes from the same parameters, for every
\* value of the rate.
C7_SameD1 ==
    \A kind \in Kinds :
        (Priced(kind) /\ HasGreeks(kind) /\ quote[kind].d1 # None) =>
            /\ greeks[kind].d1Delta = quote[kind].d1
            /\ greeks[kind].d1Gamma = quote[kind].d1
            /\ greeks[kind].d1Theta = quote[kind].d1

\* C8: a call and a put that share spot, strike, time-to-expiry, volatility
\* and rate get the same gamma and the same vega.
C8_GammaVegaParity ==
    (HasGreeks("call") /\ HasGreeks("put")) =>
        /\ greeks["call"].gamma = greeks["put"].gamma
        /\ greeks["call"].vega = greeks["put"].vega

\* both kinds computed, with a positive gamma and a positive vega
C8_Witness ==
    /\ HasGreeks("call") /\ HasGreeks("put")
    /\ IsFin(greeks["put"].gamma) /\ greeks["put"].gamma.v > 0
    /\ IsFin(greeks["put"].vega) /\ greeks["put"].vega.v > 0
    /\ greeks["call"].gamma = greeks["put"].gamma

\* C9: with time-to-expiry > 0 and volatility > 0 the delta of the call
\* minus the delta of the put is exactly 1.
C9_DeltaDifference ==
    (params.timeToExpiry.v > 0 /\ params.volatility.v > 0
     /\ HasGreeks("call") /\ HasGreeks("put")) =>
        FSub(greeks["call"].delta, greeks["put"].delta) = Num(1)

\* spot = strike = 100, T = 1, volatility 0.2, rate 0.05: call delta about
\* 0.64, put delta about -0.36
C9_Witness ==
    /\ params = Params0
    /\ HasGreeks("call") /\ HasGreeks("put")
    /\ greeks["call"].delta.v > (63 * SCALE) \div 100
    /\ greeks["call"].delta.v < (65 * SCALE) \div 100
    /\ greeks["put"].delta.v < -(35 * SCALE) \div 100
    /\ greeks["put"].delta.v > -(37 * SCALE) \div 100

\* C10: for every valid input the call price is finite, at least 0 and at
\* most spot.
C10_CallBounded ==
    (Valid(params) /\ Priced("call")) =>
        /\ IsFin(quote["call"].value)
        /\ quote["call"].value.v >= 0
        /\ quote["call"].value.v <= params.spot.v

\* the bounds do hold wherever Math.exp(-rate*T) is finite
CallBoundedWithoutOverflow == NoOverflow(params) => C10_CallBounded

\* C11: between two consecutive day advances every flavor's spot price is
\* updated exactly once, and no operation other than the price update
\* changes a spot price.
C11_OncePerDay ==
    [][/\ (lastCall'.op = "advanceDay" /\ simLog.advances >= 1) =>
              \A f \in FlavorId : simLog.updates[f] = 1
       /\ (\E f \in FlavorId :
              market'.flavors[f].spotPrice # market.flavors[f].spotPrice) =>
              lastCall'.op = "updateFlavorPrice"]_vars

\* C12: market.currentDay never decreases, and advanceDay increases it by
\* exactly 1.
C12_DayNeverDecreases ==
    [][/\ market'.currentDay >= market.currentDay
       /\ lastCall'.op = "advanceDay" => market'.currentDay = market.currentDay + 1]_vars

\* the parameters calculatePositionValue reads from a position
ValuationParams(position) ==
    <<position.instrument, position.flavor, position.strike, position.maturity,
      position.quantity, position.cost, position.entryDay>>

\* cards built in one pass for positions with equal parameters print equal values
EqualParamsEqualValue ==
    \A i, j \in DOMAIN cards :
        ValuationParams(positions[i]) = ValuationParams(positions[j]) =>
            cards[i].currentValue = cards[j].currentValue

C14_SnapshotStable ==
    [][renderIdx > 0 => (prices' = prices /\ tick' = tick)]_vars

\* a pass has valued its first position, the second is still to come and the
\* price timer is due
C14_Witness ==
    /\ renderIdx = 2 /\ Len(cards) = 1 /\ Len(positions) = 2
    /\ tick < MaxTicks

\* C15: the value readable for an open position (the card of the portfolio
\* view) equals the value computed from the current spot price.
C15_NeverStale ==
    (renderIdx = 0 /\ currentView = "portfolio") =>
        \A i \in DOMAIN cards :
            cards[i].currentValue = calculatePositionValue(positions[i])

\* volatility >= 0, reversion speed >= 0, jump probability in [0,1]
ValidConfig(m) ==
    \A f \in FlavorId :
        /\ FLe(Fin(0), m.flavors[f].impliedVolatility)
        /\ FLe(Fin(0), m.flavors[f].meanReversionSpeed)
        /\ FLe(Fin(0), m.flavors[f].jumpProbability)
        /\ FLe(m.flavors[f].jumpProbability, Num(1))

\* C16: when the market is initialized (the store is created) an invalid
\* process configuration is rejected with an error, so the market never
\* starts with one.
C16_ConfigRejected ==
    lastCall.op = "create" => (ValidConfig(market) \/ lastCall.result = "InvalidParameter")

\* C17: a successful unlockGreek(greek, cost) from cash m >= cost leaves
\* cash m - cost, the Greek in unlockedGreeks and totalSpent higher by cost.
C17_UnlockDeductsCost ==
    [][(lastCall'.op = "unlockGreek" /\ lastCall'.result = "true") =>
          /\ FLe(lastCall'.cost, portfolio.cash)
          /\ portfolio'.cash = FSub(portfolio.cash, lastCall'.cost)
          /\ lastCall'.greek \in progression'.unlockedGreeks.members
          /\ progression'.totalSpent = FAdd(progression.totalSpent, lastCall'.cost)]_vars

\* delta was unlocked at 500 from the initial cash of 2000
C17_Witness ==
    /\ lastCall = Call("unlockGreek", "delta", Num(500), "true")
    /\ portfolio.cash = Num(1500)
    /\ progression.unlockedGreeks = SetOf({"delta"})
    /\ progression.totalSpent = Num(500)

\* C18: an executeTrade whose total cost exceeds the capital is rejected: it
\* leaves capital and positions unchanged and opens no position.
C18_TradeRejected ==
    [][\A in \in TradeInputs, t \in Times :
          (executeTrade(in, t) /\ FLt(capital, TotalCost(in))) =>
              /\ capital' = capital
              /\ positions' = positions
              /\ lastTrade'.outcome = "rejected"]_vars

\* 5000 forwards at 2.52 cost 12600, more than the capital of 10000
C18_Witness ==
    /\ lastTrade.outcome = "rejected"
    /\ FLt(capital, lastTrade.totalCost)
    /\ lastTrade.totalCost = Num(12600)
    /\ capital = Num(10000) /\ positions = <<>>

\* C19: a successful executeTrade reduces capital by exactly unit cost times
\* quantity and appends exactly one position carrying that cost; the other
\* positions and the other fields of the state object stay as they were.
C19_TradeDeductsCost ==
    [][\A in \in TradeInputs, t \in Times :
          (executeTrade(in, t) /\ ~FLt(capital, TotalCost(in))) =>
              /\ capital' = FSub(capital, FMul(UnitCost(in), in.quantity))
              /\ Len(positions') = Len(positions) + 1
              /\ SubSeq(positions', 1, Len(positions)) = positions
              /\ positions'[Len(positions')].cost = FMul(UnitCost(in), in.quantity)
              /\ positions'[Len(positions')].quantity = in.quantity
              /\ UNCHANGED <<day, prices, currentView>>]_vars

\* 10 forwards were bought at 2.52 after an earlier trade: capital fell by
\* exactly 25.20 and the earlier position is still the first
C19_Witness ==
    /\ lastTrade = [outcome |-> "executed", totalCost |-> FMul(Coef(25200), Num(10))]
    /\ Len(positions) = 2
    /\ positions[2].instrument = "forward"
    /\ positions[2].cost = FMul(Coef(25200), Num(10))
    /\ positions[1].instrument = "call"
    /\ capital = FSub(FSub(Num(10000), positions[1].cost), FMul(Coef(25200), Num(10)))

\* C20: loading the saved state back (creating the store again) yields the
\* state that was saved: market, portfolio and progression, and the sets
\* unlockedGreeks, unlockedFeatures and achievements have the members they had.
C20_SaveLoadRoundTrip ==
    [][(lastCall'.op = "create" /\ calls' # calls) =>
          /\ market' = market
          /\ portfolio' = portfolio
          /\ progression'.unlockedGreeks.members = progression.unlockedGreeks.members
          /\ progression'.unlockedFeatures.members = progression.unlockedFeatures.members
          /\ progression'.achievements.members = progression.achievements.members
          /\ progression'.totalSpent = progression.totalSpent
          /\ progression'.tradesCompleted = progression.tradesCompleted
          /\ progression'.daysPlayed = progression.daysPlayed]_vars

\* what does survive the round trip: the market and the portfolio
MarketAndPortfolioSurvive ==
    [][(lastCall'.op = "create" /\ calls' # calls) =>
          /\ market' = market
          /\ portfolio' = portfolio]_vars

\* C21: the Greeks are unlocked in the documented order: in every state
\* Gamma is unlocked only if Delta is, Theta only if Gamma is, and Vega only
\* if Theta is.
C21_UnlockOrder ==
    LET unlocked == progression.unlockedGreeks.members
    IN  /\ "gamma" \in unlocked => "delta" \in unlocked
        /\ "theta" \in unlocked => "gamma" \in unlocked
        /\ "vega" \in unlocked => "theta" \in unlocked

\* the trades the unlock table asks for before Delta
DeltaTradesRequired == 15

\* C22: with fewer than 15 completed trades an attempt to unlock Delta does
\* not succeed and changes nothing (cash, progression and events stay).
C22_DeltaNeedsTrades ==
    [][(/\ lastCall'.op = "unlockGreek"
        /\ lastCall'.greek = "delta"
        /\ progression.tradesCompleted < DeltaTradesRequired) =>
          /\ lastCall'.result # "true"
          /\ UNCHANGED <<portfolio, progression, events>>]_vars

PositionLimit == 10

\* C24: the number of open positions never exceeds the position limit of 10:
\* a trade that would open one more position than the limit is rejected and
\* leaves the portfolio unchanged.
C24_PositionLimit ==
    [][/\ Len(portfolio'.positions) <= PositionLimit
       /\ (lastCall'.op = "addPosition" /\ Len(portfolio.positions) >= PositionLimit) =>
              portfolio' = portfolio]_vars

\* C25: addPosition loses none of its three effects: after addPosition(p), p
\* is the last element of portfolio.positions, tradesCompleted is exactly one
\* higher, and a position.opened event for p is the newest entry of events.
C25_AddPositionEffects ==
    [][lastCall'.op = "addPosition" =>
          \E id \in PositionIds :
              LET p == NewPosition(id)
              IN  /\ portfolio'.positions = Append(portfolio.positions, p)
                  /\ progression'.tradesCompleted = progression.tradesCompleted + 1
                  /\ events' # <<>>
                  /\ events'[Len(events')] = [type |-> "position.opened", data |-> p]]_vars

\* a second position was added after a day advance: both are held, two
\* trades are counted and the newest of three events is the opening
C25_Witness ==
    /\ lastCall.op = "addPosition"
    /\ Len(portfolio.positions) = 2
    /\ progression.tradesCompleted = 2
    /\ Len(events) = 3
    /\ events[3].type = "position.opened"
    /\ events[3].data = portfolio.positions[2]

\* C26: unlockGreek(greek, cost) with cash < cost returns false and changes
\* nothing: cash, unlockedGreeks, totalSpent and events are as before.
C26_UnlockRefused ==
    [][(lastCall'.op = "unlockGreek" /\ FLt(portfolio.cash, lastCall'.cost)) =>
          /\ lastCall'.result = "false"
          /\ portfolio'.cash = portfolio.cash
          /\ progression'.unlockedGreeks = progression.unlockedGreeks
          /\ progression'.totalSpent = progression.totalSpent
          /\ events' = events]_vars

\* gamma at 5000 was refused after delta had been bought at 500
C26_Witness ==
    /\ lastCall = Call("unlockGreek", "gamma", Num(5000), "false")
    /\ portfolio.cash = Num(1500)
    /\ progression.unlockedGreeks = SetOf({"delta"})
    /\ progression.totalSpent = Num(500)
    /\ Len(events) = 1

\* C27: unlockGreek called for a Greek that is already unlocked does not
\* charge again: cash and totalSpent are unchanged by the second call.
C27_NoDoubleCharge ==
    [][(/\ lastCall'.op = "unlockGreek"
        /\ lastCall'.greek \in progression.unlockedGreeks.members) =>
          /\ portfolio'.cash = portfolio.cash
          /\ progression'.totalSpent = progression.totalSpent]_vars

\* C28: in one advance step a jump is added if and only if the step's uniform
\* draw is below jumpProbability*dt, jumpProbability being the process
\* state's own parameter, and the magnitude of a jump is at most the
\* jump-size factor times the price before the step (up to the rounding of
\* the arithmetic).
C28_JumpRule ==
    simStep > 0 =>
        /\ (lastStep.u2 # None) <=>
              FLt(lastStep.u1, FMul(proc.jumpProbability, lastStep.dt))
        /\ FLe(FAbs(lastStep.jump),
               FAdd(FMul(JumpSize, lastStep.before), Fin(Tolerance)))

\* the jump of the step obeys the size bound and is drawn only under the
\* step's own 2% rule
JumpWithinSize ==
    simStep > 0 =>
        /\ FLe(FAbs(lastStep.jump),
               FAdd(FMul(JumpSize, lastStep.before), Fin(Tolerance)))
        /\ (lastStep.u2 # None) <=> FLt(lastStep.u1, FMul(JumpProb, lastStep.dt))

\* C29: with a zero diffusion draw and no jump, one advance step moves the
\* price toward the long-run mean and never past it whenever
\* 0 <= reversionSpeed*dt <= 1 and the mean is at or above the floor.
C29_NoOvershoot ==
    (/\ simStep > 0
     /\ lastStep.z = Fin(0)
     /\ lastStep.u2 = None
     /\ FLe(Fin(0), FMul(proc.meanReversionSpeed, lastStep.dt))
     /\ FLe(FMul(proc.meanReversionSpeed, lastStep.dt), Num(1))
     /\ FLe(PriceFloor, proc.longTermMean)) =>
        /\ FLe(FAbs(FSub(proc.currentPrice, proc.longTermMean)),
               FAbs(FSub(lastStep.before, proc.longTermMean)))
        /\ FLe(proc.longTermMean, lastStep.before) =>
              FLe(proc.longTermMean, proc.currentPrice)
        /\ FLe(lastStep.before, proc.longTermMean) =>
              FLe(proc.currentPrice, proc.longTermMean)

\* a one-day step without noise from above the mean ended strictly between
\* the mean and where it started
C29_Witness ==
    /\ simStep > 1
    /\ lastStep.z = Fin(0) /\ lastStep.u2 = None /\ lastStep.dt = Num(1)
    /\ FLt(proc.longTermMean, proc.currentPrice)
    /\ FLt(proc.currentPrice, lastStep.before)

C31_CashNeverNegative ==
    /\ IsFin(portfolio.cash)
    /\ portfolio.cash.v >= 0

\* updateCash(-5000) on a cash of 1500, left by an unlock at 500, ended on 0
C31_Witness ==
    /\ lastCall = Call("updateCash", "", Num(-5000), "ok")
    /\ portfolio.cash = Fin(0)
    /\ progression.totalSpent = Num(500)

\* the most entries emit leaves in the log: the 99 it keeps and the new one
MaxEvents == EventsKept + 1

\* C32: the event log is bounded: events holds at most 100 entries in
\* emission order, and when the log is full emit drops the oldest entry and
\* appends the new one last.
C32_EventLogBounded ==
    [][(events' # events /\ lastCall'.op # "create") =>
          /\ Len(events') <= MaxEvents
          /\ IF Len(events) < MaxEvents
             THEN /\ Len(events') = Len(events) + 1
                  /\ SubSeq(events', 1, Len(events)) = events
             ELSE /\ Len(events') = MaxEvents
                  /\ SubSeq(events', 1, MaxEvents - 1) = Tail(events)]_vars

\* after 101 day advances the log holds 100 events: the first (day 2) was
\* dropped, the oldest kept is day 3 and the newest day 102
C32_Witness ==
    /\ Len(events) = MaxEvents
    /\ market.currentDay = 102
    /\ events[1] = [type |-> "day.advanced", data |-> 3]
    /\ events[MaxEvents] = [type |-> "day.advanced", data |-> 102]

\* the card at place i stands for the position at place i, which the close
\* button of the card names by its id
DistinctIds ==
    \A i, j \in DOMAIN positions : i # j => positions[i].id # positions[j].id

\* C33: opening a position with executeTrade and closing it with
\* closePosition while the price and the day have not changed restores
\* capital to its value before the trade and removes the position (profit
\* and loss 0), for forwards and for calls.
C33_TradeCloseRoundTrip ==
    [][\A i \in DOMAIN cards :
          (closePosition(cards[i].id) /\ tick = 0 /\ day = positions[i].entryDay) =>
              /\ calculatePositionValue(positions[i]) = positions[i].cost
              /\ capital' = FAdd(capital, positions[i].cost)
              /\ positions' = Splice(positions, i)
              /\ positions' = <<>> => capital' = Num(10000)]_vars

\* the round trip is exact whenever the open positions have distinct ids
RoundTripWithDistinctIds ==
    [][\A i \in DOMAIN cards :
          (/\ closePosition(cards[i].id)
           /\ tick = 0 /\ day = positions[i].entryDay
           /\ DistinctIds) =>
              /\ calculatePositionValue(positions[i]) = positions[i].cost
              /\ capital' = FAdd(capital, positions[i].cost)
              /\ positions' = Splice(positions, i)
              /\ positions' = <<>> => capital' = Num(10000)]_vars

\* C34: all open positions have pairwise distinct ids in every reachable
\* state, so closePosition(id) removes the position the caller named and no
\* other.
C34_DistinctIds ==
    /\ DistinctIds
    /\ renderIdx = 0 => \A i \in DOMAIN cards : FindIndex(positions, cards[i].id, 1) = i

C36_UserViewStays ==
    [][(pendingShow' < pendingShow /\ navigated) => currentView' = currentView]_vars

====
